---------------------------- MODULE Spec2Model ----------------------------
(***************************************************************************)
(* GolfTrackerJack: the mock device-scan lifecycle of the useBluetooth     *)
(* hook (four of its revisions), the turn-by-turn navigation dispatcher    *)
(* and the distance function of the useNavigation hook, the discovery      *)
(* listeners, the tracked devices of the tracking and map screens, the     *)
(* ball markers, players, holes and scores of the map and scorecard        *)
(* screens, the native scans, and the GameTimer.  Each part has its own    *)
(* variables and its own specification; the others' variables stay at     *)
(* their idle values.                                                      *)
(*                                                                         *)
(* Time is in milliseconds.  A setTimeout callback runs no earlier than    *)
(* its due time, and pending callbacks run in due order.  React state      *)
(* setters are modelled by their effect on the hook's state; the functional*)
(* form setDevices(prev => ...) reads the state current when the callback  *)
(* runs.                                                                   *)
(***************************************************************************)
EXTENDS Integers, Sequences, FiniteSets, TLC

VARIABLES
    rev,                \* which revision of useBluetooth is mounted
    platform,           \* Platform.OS
    mounted,            \* the screen owning the hook is mounted
    isScanning,         \* useState(false)
    devices,            \* useState<BluetoothDevice[]>([]), records named by id
    isBluetoothEnabled, \* useState
    scanError,          \* useState<string | null>
    pending,            \* startScan calls suspended at their await / open alert
    timers,             \* setTimeout callbacks not yet run
    now,                \* the clock
    scanCount,          \* scans begun so far; the newest scan's number
    scanStartedAt,      \* clock value when the newest scan began
    stopped,            \* scans during which stopScan() took the hook to Idle
    lastAlert,          \* title of the last Alert.alert shown
    lastOp,             \* the handler or callback that ran last
    navPc,              \* position of openTurnByTurnNavigation
    navDest,            \* its destination argument
    navIdx,             \* the native candidate being tried
    navSuccess,         \* its local `success`
    navAppName,         \* its local `appName`
    navLog,             \* the Linking / window calls it made, with results
    navTimer,           \* the success alert scheduled with setTimeout
    navNotices,         \* the alerts it has shown
    navPromise,         \* state of the promise it returned
    bleHook,            \* which discovery listener is installed
    bleDevices,         \* the devices list the listener maintains, full records
    bleEvent,           \* the peripheral of the last discovery event
    distPoint1,         \* first argument of a calculateDistance call
    distPoint2,         \* its second argument
    distResult,         \* what the call returned
    trkScreen,          \* the screen that owns trackedDevices
    trkLocation,        \* useState<LocationObject | null>: << >> or << coords >>
    trkScanning,        \* isScanning as the screen sees it
    trkDevices,         \* the hook's devices as the screen sees them, by id
    trkTracked,         \* useState<TrackedDevice[]>([])
    trkTimers,          \* the scan timers of the map screen: the location each captured
    trkScans,           \* scans started so far
    trkRemoved,         \* ids whose removal was confirmed since the last scan start
    trkOp,              \* the handler, effect or callback that ran last
    gmScreen,           \* the first CourseMapScreen or the ScorecardScreen
    gmNow,              \* Date.now()
    gmLocated,          \* the map screen's location is set
    ballMarkers,        \* useState<BallMarker[]>([]) of the map screen
    currentHole,        \* useState(1) of the mounted screen
    players,            \* useState<Player[]> of the scorecard
    prompts,            \* open Alert.prompt dialogs: the players each closure holds
    gmAdds,             \* addBallMarker / addPlayer taps so far
    gmOp,               \* the handler or callback that ran last
    coursePars,         \* the par of each hole of COURSE_HOLES
    natHook,            \* which hook with a native scan is mounted
    natDemoMode,        \* useState(false) useDemoMode
    natScanning,        \* its isScanning
    natError,           \* its scanError
    natPc,              \* the await at which its startScan is suspended
    natTimers,          \* auto-stop timers: the isScanning each closure holds
    natRadio,           \* the BLE manager is scanning
    natListening,       \* a BleManagerStopScan listener is installed
    natDemoStops,       \* auto-stop timers of the demo fallback
    natCalls,           \* startScan calls so far
    natOp,              \* the handler or callback that ran last
    gtMounted,          \* a GameTimer is mounted
    gtStartTime,        \* its startTime prop: << >> for null, or << ms >>
    gtActive,           \* its isActive prop
    gtElapsed,          \* useState('0:00') elapsedTime
    gtIntervals,        \* setInterval timers not cleared: id and captured startTime
    gtOwn,              \* the interval the latest effect's cleanup holds; 0 for none
    gtCreated,          \* intervals created so far
    gtNow,              \* new Date().getTime()
    gtOp                \* what ran last, and the interval that ran it

scanVars == <<rev, platform, mounted, isScanning, devices, isBluetoothEnabled,
              scanError, pending, timers, now, scanCount, scanStartedAt,
              stopped, lastAlert, lastOp>>

navVars == <<navPc, navDest, navIdx, navSuccess, navAppName, navLog, navTimer,
             navNotices, navPromise>>

bleVars == <<bleHook, bleDevices, bleEvent>>

distVars == <<distPoint1, distPoint2, distResult>>

trkVars == <<trkScreen, trkLocation, trkScanning, trkDevices, trkTracked,
             trkTimers, trkScans, trkRemoved, trkOp>>

gmVars == <<gmScreen, gmNow, gmLocated, ballMarkers, currentHole, players,
            prompts, gmAdds, gmOp, coursePars>>

natVars == <<natHook, natDemoMode, natScanning, natError, natPc, natTimers,
             natRadio, natListening, natDemoStops, natCalls, natOp>>

gtVars == <<gtMounted, gtStartTime, gtActive, gtElapsed, gtIntervals, gtOwn,
            gtCreated, gtNow, gtOp>>

vars == <<scanVars, navVars, bleVars, distVars, trkVars, gmVars, natVars, gtVars>>

\* What the handlers of one hook or screen leave alone: the others' state.
outsideScan == <<navVars, bleVars, distVars, trkVars, gmVars, natVars, gtVars>>
outsideNav  == <<scanVars, bleVars, distVars, trkVars, gmVars, natVars, gtVars>>
outsideBle  == <<scanVars, navVars, distVars, trkVars, gmVars, natVars, gtVars>>
outsideDist == <<scanVars, navVars, bleVars, trkVars, gmVars, natVars, gtVars>>
outsideTrk  == <<scanVars, navVars, bleVars, distVars, gmVars, natVars, gtVars>>
outsideGm   == <<scanVars, navVars, bleVars, distVars, trkVars, natVars, gtVars>>
outsideNat  == <<scanVars, navVars, bleVars, distVars, trkVars, gmVars, gtVars>>
outsideGt   == <<scanVars, navVars, bleVars, distVars, trkVars, gmVars, natVars>>

-----------------------------------------------------------------------------
(* Bounds *)

MaxScans   == 2     \* scans begun (or suspended before beginning) per run
MaxAdds    == 2     \* addBallMarker / addPlayer / updateScore taps per run
MaxTicks   == 1     \* milliseconds that pass on the game screens' clock
MaxOverlap == 2     \* scans whose callbacks are pending at the same time
MaxIntervals == 3   \* intervals a GameTimer creates per run
MaxSeconds == 3     \* seconds that pass on the GameTimer's clock
TimeStep   == 800   \* granularity of the clock

-----------------------------------------------------------------------------
(* Revisions of the hook and their canned tables *)

RevAlert    == "alert"      \* src/hooks/useBluetooth.ts 15-155
RevStagger  == "stagger"    \* src/hooks/useBluetooth.ts 396-601
RevDemo     == "demo"       \* src/unnamed/part_005 15-172
RevCleanup  == "cleanup"    \* src/unnamed/part_004 15-338
Revisions   == {RevAlert, RevStagger, RevDemo, RevCleanup}

PlatformOS  == {"ios", "android", "web"}

NoError == "null"

\* src/hooks/useBluetooth.ts 73-114
alertDemoDevices ==
    << "demo-phone-1", "demo-watch-1", "demo-headphones-1", "demo-phone-2",
       "demo-headphones-2", "demo-watch-2", "demo-golf-1", "demo-golf-2" >>

\* src/hooks/useBluetooth.ts 504-523
realDevices == << "real-device-1", "real-device-2", "real-device-3" >>

\* src/unnamed/part_005 89-135
demoDevices ==
    << "demo-golf-ball-1", "demo-golf-ball-2", "demo-golf-ball-3",
       "demo-airpods", "demo-watch", "demo-phone", "demo-headphones",
       "demo-samsung", "demo-garmin" >>

\* src/unnamed/part_004 258-289
cleanupDemoDevices ==
    << "demo-golf-ball-1", "demo-golf-ball-2", "demo-airpods", "demo-watch",
       "demo-phone", "demo-headphones" >>

CannedTable(r) ==
    CASE r = RevAlert   -> alertDemoDevices
      [] r = RevStagger -> realDevices
      [] r = RevDemo    -> demoDevices
      [] r = RevCleanup -> cleanupDemoDevices

DemoInterval    == 800      \* part_005 148, useBluetooth.ts 126
CleanupInterval == 1000     \* part_004 301
StaggerInterval == 1500     \* useBluetooth.ts 534
StopBuffer      == 1000     \* part_005 155, useBluetooth.ts 133, 532
CleanupStopAt   == 7000     \* part_004 306

Interval(r) ==
    CASE r = RevAlert   -> DemoInterval
      [] r = RevStagger -> StaggerInterval
      [] r = RevDemo    -> DemoInterval
      [] r = RevCleanup -> CleanupInterval

\* An auto-stop due together with the first discovery.
AutoStopDelayShort(r) == Interval(r)

\* Delay of the auto-stop callback scheduled by simulateDeviceDiscovery.
AutoStopDelay(r) ==
    IF r = RevCleanup THEN CleanupStopAt
    ELSE Len(CannedTable(r)) * Interval(r) + StopBuffer

-----------------------------------------------------------------------------
(* Timers *)

Discover == "discover"
AutoStop == "autoStop"

Timer(s, k, i, d) == [scan |-> s, kind |-> k, idx |-> i, due |-> d]

\* A discovery loop that stops one record short of the table.
DiscoveryTimersShort(r, s, t) ==
    { Timer(s, Discover, i, t + i * Interval(r)) : i \in 1..(Len(CannedTable(r)) - 1) }

\* The forEach of simulateDeviceDiscovery / the for loop of
\* scanForNearbyDevices: one callback per canned record.
DiscoveryTimers(r, s, t) ==
    { Timer(s, Discover, i, t + i * Interval(r)) : i \in 1..Len(CannedTable(r)) }

\* A simulateDeviceDiscovery that schedules no auto-stop.
NoAutoStopTimers(r, s, t) == {}

\* The trailing setTimeout of simulateDeviceDiscovery.  The staggered
\* revision schedules its auto-stop from the last discovery callback instead.
AutoStopTimers(r, s, t) ==
    IF r = RevStagger THEN {}
    ELSE { Timer(s, AutoStop, Len(CannedTable(r)) + 1, t + AutoStopDelay(r)) }

ScanTimers(r, s, t) == DiscoveryTimers(r, s, t) \cup AutoStopTimers(r, s, t)

\* Callbacks run in due order; equal due times run in creation order.
Before(a, b) ==
    \/ a.due < b.due
    \/ a.due = b.due /\ a.scan < b.scan
    \/ a.due = b.due /\ a.scan = b.scan /\ a.idx < b.idx

NextTimer == CHOOSE a \in timers : \A b \in timers \ {a} : Before(a, b)

-----------------------------------------------------------------------------
(* Pure helpers *)

Ids(ds) == { ds[i] : i \in 1..Len(ds) }

\* setDevices(prev => prev.find(d => d.id === device.id) ? prev : [...prev, device])
AppendIfAbsent(prev, id) == IF id \in Ids(prev) THEN prev ELSE Append(prev, id)

\* setDevices(prev => [...prev, device])
AppendAlways(prev, id) == Append(prev, id)

\* The updater a discovery callback passes to setDevices.
DiscoveryUpdate(r, prev, id) ==
    IF r = RevStagger THEN AppendAlways(prev, id) ELSE AppendIfAbsent(prev, id)

\* What ran last: the handler or callback, the scan and table index of a
\* timer callback, and the isScanning and list length it found.
Op(o, s, i) == [op |-> o, scan |-> s, idx |-> i,
                was |-> isScanning, had |-> Len(devices)]

-----------------------------------------------------------------------------
(* Initial state: the hook after mount and its mount effect *)

InitialScanError(r, p) ==
    CASE r = RevAlert ->
            IF p = "web" THEN "Bluetooth scanning requires a native mobile app"
            ELSE "Real Bluetooth requires a development build with native modules"
      [] OTHER -> NoError

InitialBluetoothEnabled(r) == r # RevAlert

ScanInit ==
    /\ rev \in Revisions
    /\ platform \in PlatformOS
    \* On the web the staggered revision makes a Web Bluetooth request, not a
    \* mock scan; the demo and cleanup revisions behave there as on ios.
    /\ platform = "web" => rev = RevAlert
    /\ mounted = TRUE
    /\ isScanning = FALSE
    /\ devices = << >>
    /\ isBluetoothEnabled = InitialBluetoothEnabled(rev)
    /\ scanError = InitialScanError(rev, platform)
    /\ pending = 0
    /\ timers = {}
    /\ now = 0
    /\ scanCount = 0
    /\ scanStartedAt = 0
    /\ stopped = {}
    /\ lastAlert = "none"
    /\ lastOp = Op("mount", 0, 0)

NoDest == [latitude |-> 0, longitude |-> 0]

NavIdle ==
    /\ navPc = "idle"
    /\ navDest = NoDest
    /\ navIdx = 0
    /\ navSuccess = FALSE
    /\ navAppName = "none"
    /\ navLog = << >>
    /\ navTimer = FALSE
    /\ navNotices = << >>
    /\ navPromise = "none"

NoEvent == [id |-> "none", name |-> "", rssi |-> 0]

BleIdle ==
    /\ bleHook = "none"
    /\ bleDevices = << >>
    /\ bleEvent = NoEvent

NotCalled == << >>     \* distResult before the call returns; << v >> after

DistIdle ==
    /\ distPoint1 = NoDest
    /\ distPoint2 = NoDest
    /\ distResult = NotCalled

TrkIdle ==
    /\ trkScreen = "none"
    /\ trkLocation = << >>
    /\ trkScanning = FALSE
    /\ trkDevices = << >>
    /\ trkTracked = << >>
    /\ trkTimers = << >>
    /\ trkScans = 0
    /\ trkRemoved = {}
    /\ trkOp = "mount"

ClockStart == 1000      \* Date.now() when the screen mounts

FirstHole == 1
LastHole  == 18

\* new Array(18).fill(0)
NoScores == [h \in FirstHole..LastHole |-> 0]

FirstPlayer == [id |-> "1", name |-> "You", scores |-> NoScores]

\* A course whose holes all have par 4: one outcome of the random pars.
ParFour == [h \in FirstHole..LastHole |-> 4]

GmIdle ==
    /\ gmScreen = "none"
    /\ gmNow = ClockStart
    /\ gmLocated = FALSE
    /\ ballMarkers = << >>
    /\ currentHole = 1
    /\ players = << FirstPlayer >>
    /\ prompts = << >>
    /\ gmAdds = 0
    /\ gmOp = "mount"
    /\ coursePars = ParFour

NatIdle ==
    /\ natHook = "none"
    /\ natDemoMode = FALSE
    /\ natScanning = FALSE
    /\ natError = NoError
    /\ natPc = "idle"
    /\ natTimers = << >>
    /\ natRadio = FALSE
    /\ natListening = FALSE
    /\ natDemoStops = 0
    /\ natCalls = 0
    /\ natOp = "mount"

NoOp == [op |-> "none", id |-> 0]

GtIdle ==
    /\ gtMounted = FALSE
    /\ gtStartTime = << >>
    /\ gtActive = FALSE
    /\ gtElapsed = "0:00"
    /\ gtIntervals = {}
    /\ gtOwn = 0
    /\ gtCreated = 0
    /\ gtNow = 0
    /\ gtOp = NoOp

-----------------------------------------------------------------------------
(* startScan *)

\* A startScan that lacks the re-entrancy guard.
StartScanNeverReturnsEarly(scanning) == FALSE

\* `if (isScanning) return;` at the head of every startScan.
StartScanReturnsEarly(scanning) == scanning

\* A scan start that keeps the previous list.
DevicesKeptOnBegin(prev) == prev

\* setDevices([]) on the way into Scanning.
DevicesOnBegin(prev) == << >>

\* Whether the call suspends before the scan begins: the demo-alert revision
\* waits for a button of its alert, the permission revisions wait for the
\* Android permission dialog (requestPermissions returns true at once
\* elsewhere), the staggered revision does not wait.
Suspends(r, p) ==
    CASE r = RevAlert   -> TRUE
      [] r = RevStagger -> FALSE
      [] OTHER          -> p = "android"

ScansInProgress == { t.scan : t \in timers }

\* The bounds on a new scan.
MayBegin ==
    /\ scanCount + pending < MaxScans
    /\ Cardinality(ScansInProgress) + pending < MaxOverlap

\* setIsScanning(true); setDevices([]); then the batch of callbacks.
BeginScan ==
    /\ isScanning' = TRUE
    /\ devices' = DevicesOnBegin(devices)
    /\ timers' = timers \cup ScanTimers(rev, scanCount + 1, now)
    /\ scanCount' = scanCount + 1
    /\ scanStartedAt' = now
    /\ scanError' = IF rev \in {RevAlert, RevStagger} THEN NoError ELSE scanError

\* startScan() invoked while the hook shows Scanning.
StartScanWhileScanning ==
    /\ mounted
    /\ isScanning
    /\ lastOp' = Op("startScan", 0, 0)
    /\ IF StartScanReturnsEarly(isScanning)
       THEN UNCHANGED <<rev, platform, mounted, isScanning, devices,
                        isBluetoothEnabled, scanError, pending, timers, now,
                        scanCount, scanStartedAt, stopped, lastAlert>>
       ELSE /\ MayBegin
            /\ BeginScan
            /\ UNCHANGED <<rev, platform, mounted, isBluetoothEnabled,
                           pending, now, stopped, lastAlert>>
    /\ UNCHANGED outsideScan

\* startScan() invoked while the hook shows Idle, up to its first suspension.
StartScanWhileIdle ==
    /\ mounted
    /\ ~isScanning
    /\ MayBegin
    /\ lastOp' = Op("startScan", 0, 0)
    /\ IF rev = RevAlert /\ platform = "web"
       THEN /\ scanError' = "Bluetooth scanning not available on web platform"
            /\ lastAlert' = "Platform Not Supported"
            /\ UNCHANGED <<isScanning, devices, timers, scanCount,
                           scanStartedAt, pending>>
       ELSE IF Suspends(rev, platform)
       THEN /\ pending' = pending + 1
            /\ scanError' = IF rev = RevAlert THEN NoError ELSE scanError
            /\ lastAlert' = IF rev = RevAlert THEN "Development Build Required"
                            ELSE lastAlert
            /\ UNCHANGED <<isScanning, devices, timers, scanCount, scanStartedAt>>
       ELSE /\ BeginScan
            /\ UNCHANGED <<pending, lastAlert>>
    /\ UNCHANGED outsideScan
    /\ UNCHANGED <<rev, platform, mounted, isBluetoothEnabled, now, stopped>>

\* The suspended call resumes: the permission request was granted, or
\* 'Show Demo' was pressed.
ResumeGranted ==
    /\ pending > 0
    /\ pending' = pending - 1
    /\ lastOp' = Op("resumeGranted", 0, 0)
    /\ BeginScan
    /\ UNCHANGED outsideScan
    /\ UNCHANGED <<rev, platform, mounted, isBluetoothEnabled, now, stopped,
                   lastAlert>>

\* A startScan that goes on whatever the answer was.
ProceedsRegardless(hasPermissions) == TRUE

\* `if (!hasPermissions) { Alert.alert('Permissions Required', ...); return; }`
\* Only 'Show Demo' of the demo alert leads on to simulateDeviceDiscovery.
ProceedsAfterRequest(hasPermissions) == hasPermissions

\* The suspended call resumes with a refusal: the permission request was
\* denied, or 'Learn More' was pressed.
ResumeDenied ==
    /\ pending > 0
    /\ pending' = pending - 1
    /\ lastOp' = Op("resumeDenied", 0, 0)
    /\ lastAlert' = IF rev = RevAlert THEN "How to Enable Real Bluetooth"
                    ELSE "Permissions Required"
    /\ IF ProceedsAfterRequest(FALSE)
       THEN BeginScan
       ELSE UNCHANGED <<isScanning, devices, scanError, timers, scanCount,
                        scanStartedAt>>
    /\ UNCHANGED outsideScan
    /\ UNCHANGED <<rev, platform, mounted, isBluetoothEnabled, now, stopped>>

-----------------------------------------------------------------------------
(* stopScan *)

\* `if (!isScanning) return;` -- present in the demo and cleanup revisions.
StopScanReturnsEarly(r, scanning) == r \in {RevDemo, RevCleanup} /\ ~scanning

\* A stopScan that toggles the flag instead of clearing it.
ScanningToggled(scanning) == ~scanning

\* setIsScanning(false)
ScanningAfterStop(scanning) == FALSE

StopScan ==
    /\ mounted
    /\ lastOp' = Op("stopScan", 0, 0)
    /\ isScanning' = IF StopScanReturnsEarly(rev, isScanning) THEN isScanning
                     ELSE ScanningAfterStop(isScanning)
    /\ stopped' = IF isScanning THEN stopped \cup ScansInProgress ELSE stopped
    /\ UNCHANGED outsideScan
    /\ UNCHANGED <<rev, platform, mounted, devices, isBluetoothEnabled,
                   scanError, pending, timers, now, scanCount, scanStartedAt,
                   lastAlert>>

-----------------------------------------------------------------------------
(* Timer callbacks and the clock *)

TimerDue == timers # {} /\ NextTimer.due <= now

\* The auto-stop the staggered revision schedules from inside its last
\* discovery callback.
NestedAutoStop(r, t, time) ==
    IF r = RevStagger /\ t.idx = Len(CannedTable(r))
    THEN { Timer(t.scan, AutoStop, t.idx + 1, time + StopBuffer) }
    ELSE {}

FireDiscovery ==
    /\ TimerDue
    /\ NextTimer.kind = Discover
    /\ LET t == NextTimer
       IN  /\ devices' = DiscoveryUpdate(rev, devices, CannedTable(rev)[t.idx])
           /\ timers' = (timers \ {t}) \cup NestedAutoStop(rev, t, now)
           /\ lastOp' = Op(Discover, t.scan, t.idx)
    /\ UNCHANGED outsideScan
    /\ UNCHANGED <<rev, platform, mounted, isScanning, isBluetoothEnabled,
                   scanError, pending, now, scanCount, scanStartedAt, stopped,
                   lastAlert>>

FireAutoStop ==
    /\ TimerDue
    /\ NextTimer.kind = AutoStop
    /\ LET t == NextTimer
       IN  /\ isScanning' = FALSE
           /\ timers' = timers \ {t}
           /\ lastOp' = Op(AutoStop, t.scan, t.idx)
    /\ UNCHANGED outsideScan
    /\ UNCHANGED <<rev, platform, mounted, devices, isBluetoothEnabled,
                   scanError, pending, now, scanCount, scanStartedAt, stopped,
                   lastAlert>>

\* Time passes while callbacks are pending and none is due.
Tick ==
    /\ timers # {}
    /\ ~TimerDue
    /\ now' = now + TimeStep
    /\ lastOp' = Op("tick", 0, 0)
    /\ UNCHANGED outsideScan
    /\ UNCHANGED <<rev, platform, mounted, isScanning, devices,
                   isBluetoothEnabled, scanError, pending, timers, scanCount,
                   scanStartedAt, stopped, lastAlert>>

-----------------------------------------------------------------------------
(* Teardown of the owning screen *)

\* The cleanup of the cleanup revision's mount effect tests the isScanning
\* of the render that created it, the first one: useState(false).
CleanupSeesScanning == FALSE

Unmount ==
    /\ mounted
    /\ mounted' = FALSE
    /\ lastOp' = Op("unmount", 0, 0)
    /\ isScanning' = IF rev = RevCleanup /\ CleanupSeesScanning
                        /\ ~StopScanReturnsEarly(rev, CleanupSeesScanning)
                     THEN ScanningAfterStop(isScanning)
                     ELSE isScanning
    /\ UNCHANGED outsideScan
    /\ UNCHANGED <<rev, platform, devices, isBluetoothEnabled, scanError,
                   pending, timers, now, scanCount, scanStartedAt, stopped,
                   lastAlert>>

-----------------------------------------------------------------------------

Init ==
    /\ ScanInit /\ NavIdle /\ BleIdle /\ DistIdle /\ TrkIdle /\ GmIdle
    /\ NatIdle /\ GtIdle

Next ==
    \/ StartScanWhileScanning
    \/ StartScanWhileIdle
    \/ ResumeGranted
    \/ ResumeDenied
    \/ StopScan
    \/ FireDiscovery
    \/ FireAutoStop
    \/ Tick
    \/ Unmount

Spec == Init /\ [][Next]_vars

\* The event loop runs due callbacks and the clock does not stand still.
FairSpec == Spec /\ WF_vars(FireDiscovery) /\ WF_vars(FireAutoStop) /\ WF_vars(Tick)

-----------------------------------------------------------------------------
(* useNavigation.openTurnByTurnNavigation, src/hooks/useNavigation.ts 9-134 *)

Latitudes  == {37, -33}
Longitudes == {-122, 151}
Destinations == [latitude : Latitudes, longitude : Longitudes]

\* A dispatcher that tries the Google Maps app before Apple Maps on ios.
CandidatesGoogleFirst(p) ==
    CASE p = "ios"     -> << "comgooglemaps://", "maps://" >>
      [] p = "android" -> << "google.navigation:", "geo:" >>
      [] OTHER         -> << >>

\* The native candidates of each platform, in the order the code tries them.
Candidates(p) ==
    CASE p = "ios"     -> << "maps://", "comgooglemaps://" >>
      [] p = "android" -> << "google.navigation:", "geo:" >>
      [] OTHER         -> << >>

WebFallback == "https://maps.google.com/maps"

\* The appName the success alert mentions.
AppName(target) ==
    CASE target = "maps://"            -> "Apple Maps"
      [] target = "comgooglemaps://"   -> "Google Maps"
      [] target = "google.navigation:" -> "Google Maps"
      [] target = "geo:"               -> "Maps"
      [] OTHER                         -> "Google Maps (Web)"

\* A URL is its scheme and the coordinates interpolated into it.
Url(target, dest) ==
    [target |-> target, latitude |-> dest.latitude, longitude |-> dest.longitude]

Call(fn, url, result) == [fn |-> fn, url |-> url, result |-> result]

\* An error alert that prints the coordinates in the wrong order.
ErrorNoticeSwapped(dest) ==
    [kind |-> "error", latitude |-> dest.longitude, longitude |-> dest.latitude,
     app |-> "none"]

\* The alert of the outer catch: 'Navigation Error' with the manual coordinates.
ErrorNotice(dest) ==
    [kind |-> "error", latitude |-> dest.latitude, longitude |-> dest.longitude,
     app |-> "none"]

\* A success timer that shows the 'Navigation Error' alert.
SuccessNoticeAsError(app) ==
    [kind |-> "error", latitude |-> 0, longitude |-> 0, app |-> app]

\* The alert the success timer shows: 'Navigation Started!' naming the app.
SuccessNotice(app) ==
    [kind |-> "success", latitude |-> 0, longitude |-> 0, app |-> app]

\* A dispatcher whose later blocks are not guarded by `if (!success)`.
AfterCandidateIgnoringSuccess(idx, success, n) ==
    IF idx < n THEN "probe" ELSE "web"

\* Where control goes after native candidate idx of n was tried: each later
\* block is entered only `if (!success)`.
AfterCandidate(idx, success, n) ==
    IF success THEN "done"
    ELSE IF idx < n THEN "probe"
    ELSE "web"

\* What openTurnByTurnNavigation's promise does when the web fallback threw:
\* the inner catch throws, the outer catch shows the alert and returns.
PromiseAfterFailure == "resolved"

NavCall(dest) ==
    /\ navPc = "idle"
    /\ navDest' = dest
    /\ navSuccess' = FALSE
    /\ navAppName' = "none"
    /\ navIdx' = IF Len(Candidates(platform)) > 0 THEN 1 ELSE 0
    /\ navPc' = IF Len(Candidates(platform)) > 0 THEN "probe" ELSE "web"
    /\ navPromise' = "pending"
    /\ UNCHANGED <<navLog, navTimer, navNotices>>
    /\ UNCHANGED outsideNav

\* await Linking.canOpenURL(navigationUrl) inside the candidate's try block
NavProbe(result) ==
    /\ navPc = "probe"
    /\ LET target == Candidates(platform)[navIdx]
           next   == AfterCandidate(navIdx, navSuccess, Len(Candidates(platform)))
       IN  /\ navLog' = Append(navLog, Call("canOpenURL", Url(target, navDest), result))
           /\ navAppName' = AppName(target)
           /\ IF result = "true"
              THEN /\ navPc' = "open"
                   /\ navIdx' = navIdx
              ELSE /\ navPc' = next
                   /\ navIdx' = IF next = "probe" THEN navIdx + 1 ELSE navIdx
    /\ UNCHANGED <<navDest, navSuccess, navTimer, navNotices, navPromise>>
    /\ UNCHANGED outsideNav

\* await Linking.openURL(navigationUrl) of a native candidate
NavOpen(result) ==
    /\ navPc = "open"
    /\ LET target == Candidates(platform)[navIdx]
           ok     == result = "ok"
           next   == AfterCandidate(navIdx, ok, Len(Candidates(platform)))
       IN  /\ navLog' = Append(navLog, Call("openURL", Url(target, navDest), result))
           /\ navSuccess' = ok
           /\ navPc' = next
           /\ navIdx' = IF next = "probe" THEN navIdx + 1 ELSE navIdx
           /\ navTimer' = (next = "done" /\ ok)
           /\ navPromise' = IF next = "done" THEN "resolved" ELSE navPromise
    /\ UNCHANGED <<navDest, navAppName, navNotices>>
    /\ UNCHANGED outsideNav

\* The web fallback: window.open on the web, Linking.openURL elsewhere.
NavWeb(result) ==
    /\ navPc = "web"
    /\ LET fn == IF platform = "web" THEN "window.open" ELSE "openURL"
       IN  navLog' = Append(navLog, Call(fn, Url(WebFallback, navDest), result))
    /\ navAppName' = AppName(WebFallback)
    /\ navPc' = "done"
    /\ IF result = "ok"
       THEN /\ navSuccess' = TRUE
            /\ navTimer' = TRUE
            /\ navNotices' = navNotices
            /\ navPromise' = "resolved"
       ELSE /\ navSuccess' = FALSE
            /\ navTimer' = FALSE
            /\ navNotices' = Append(navNotices, ErrorNotice(navDest))
            /\ navPromise' = PromiseAfterFailure
    /\ UNCHANGED <<navDest, navIdx>>
    /\ UNCHANGED outsideNav

\* The setTimeout(..., 1000) that shows the success alert.
NavSuccessAlert ==
    /\ navTimer
    /\ navTimer' = FALSE
    /\ navNotices' = Append(navNotices, SuccessNotice(navAppName))
    /\ UNCHANGED <<navPc, navDest, navIdx, navSuccess, navAppName, navLog,
                   navPromise>>
    /\ UNCHANGED outsideNav

NavInit ==
    /\ ScanInit
    /\ rev = RevAlert
    /\ NavIdle
    /\ BleIdle
    /\ DistIdle
    /\ TrkIdle
    /\ GmIdle
    /\ NatIdle
    /\ GtIdle

NavNext ==
    \/ \E dest \in Destinations : NavCall(dest)
    \/ \E result \in {"true", "false", "throw"} : NavProbe(result)
    \/ \E result \in {"ok", "throw"} : NavOpen(result)
    \/ \E result \in {"ok", "throw"} : NavWeb(result)
    \/ NavSuccessAlert

NavSpec == NavInit /\ [][NavNext]_vars

-----------------------------------------------------------------------------
(* The discovery listeners that keep full records:                         *)
(* src/hooks/useNativeBluetooth.ts 96-124, src/hooks/useBluetooth.ts       *)
(* 288-309 and the mock callback of src/hooks/useBluetooth.ts 117-127      *)

NativeHook   == "useNativeBluetooth"
ListenerHook == "useBluetooth"
SimulateHook == "simulateDeviceDiscovery"
BleHooks     == {NativeHook, ListenerHook, SimulateHook}

NoName == ""    \* a peripheral that advertises no name: undefined, null or ''

PeripheralIds   == {"demo-watch-2", "demo-golf-1", "demo-golf-2"}
PeripheralNames == {NoName, "Smart Golf Ball Pro"}
PeripheralRssi  == {0, -58, -67}

Peripherals == [id : PeripheralIds, name : PeripheralNames, rssi : PeripheralRssi]

\* The entries of the mock table with these ids.
CannedRecord(id) ==
    CASE id = "demo-watch-2" -> [id |-> id, name |-> "Garmin Approach S70", rssi |-> -61]
      [] id = "demo-golf-1"  -> [id |-> id, name |-> "Smart Golf Ball Pro", rssi |-> -67]
      [] OTHER               -> [id |-> id, name |-> "Titleist Smart Ball", rssi |-> -58]

\* The events a listener can receive: any peripheral from the BLE manager,
\* the table's entries from the mock timers.
Events(hook) ==
    IF hook = SimulateHook THEN { CannedRecord(id) : id \in PeripheralIds }
    ELSE Peripherals

\* name: device.name || 'Unknown Device', rssi: device.rssi || -100
NewDevice(device) ==
    [id   |-> device.id,
     name |-> IF device.name = NoName THEN "Unknown Device" ELSE device.name,
     rssi |-> IF device.rssi = 0 THEN -100 ELSE device.rssi]

\* `if (device && device.id && device.name)` of the useBluetooth listener;
\* the useNativeBluetooth listener has no such test.
ListenerAccepts(hook, device) == hook = ListenerHook => device.name # NoName

\* prev.findIndex(d => d.id === id), counted from 1; 0 for -1.
FindIndex(prev, id) ==
    IF \E i \in 1..Len(prev) : prev[i].id = id
    THEN CHOOSE i \in 1..Len(prev) :
            /\ prev[i].id = id
            /\ \A j \in 1..(i - 1) : prev[j].id # id
    ELSE 0

\* A listener that drops the old record and appends the new one.
MoveToEnd(prev, newDevice) ==
    LET IsOther(d) == d.id # newDevice.id
    IN  Append(SelectSeq(prev, IsOther), newDevice)

\* updated = [...prev]; updated[existingIndex] = newDevice; or [...prev, newDevice]
UpdateOrAppend(prev, newDevice) ==
    LET existingIndex == FindIndex(prev, newDevice.id)
    IN  IF existingIndex > 0 THEN [prev EXCEPT ![existingIndex] = newDevice]
        ELSE Append(prev, newDevice)

\* if (prev.find(d => d.id === device.id)) return prev; return [...prev, device]
KeepOrAppend(prev, device) ==
    IF FindIndex(prev, device.id) > 0 THEN prev ELSE Append(prev, device)

OnDiscover(hook, prev, device) ==
    CASE hook = SimulateHook           -> KeepOrAppend(prev, device)
      [] ~ListenerAccepts(hook, device) -> prev
      [] OTHER                          -> UpdateOrAppend(prev, NewDevice(device))

\* A BleManagerDiscoverPeripheral event, or a mock discovery timer.
BleDiscover(device) ==
    /\ bleDevices' = OnDiscover(bleHook, bleDevices, device)
    /\ bleEvent' = device
    /\ UNCHANGED bleHook
    /\ UNCHANGED outsideBle

\* setDevices([]) of a startScan.
BleStartScan ==
    /\ bleDevices' = << >>
    /\ bleEvent' = NoEvent
    /\ UNCHANGED bleHook
    /\ UNCHANGED outsideBle

BleInit ==
    /\ ScanInit
    /\ rev = RevAlert
    /\ platform = "ios"
    /\ NavIdle
    /\ DistIdle
    /\ TrkIdle
    /\ GmIdle
    /\ NatIdle
    /\ GtIdle
    /\ bleHook \in BleHooks
    /\ bleDevices = << >>
    /\ bleEvent = NoEvent

BleNext ==
    \/ \E device \in Events(bleHook) : BleDiscover(device)
    \/ BleStartScan

BleSpec == BleInit /\ [][BleNext]_vars

-----------------------------------------------------------------------------
(* calculateDistance, src/hooks/useNavigation.ts 136-153 (the same formula *)
(* is in src/app/(tabs)/index.tsx 74-85 and 580-591).                      *)
(*                                                                         *)
(* A JavaScript number is a binary floating-point value: every operation   *)
(* returns the representable value nearest to the exact result.  Here a    *)
(* number is an integer count of units of 1/One, and an operation rounds   *)
(* its result to the unit and to a significand of Precision bits (ties to  *)
(* even), where the code's doubles have 53.  Angles are whole degrees on a *)
(* grid of 15, Math.sin and Math.cos are their values at that precision,   *)
(* and the conversion `* Math.PI / 180` is folded into them.               *)

Precision == 9
One       == 8192

\* NaN is encoded by a number that no operation produces; it is tested for
\* before a value is used as a number.
NaN == -(2^30)

Abs(v)  == IF v < 0 THEN -v ELSE v
Sign(v) == IF v < 0 THEN -1 ELSE 1

BitLength(m) == CHOOSE n \in 1..30 : 2^(n - 1) <= m /\ m < 2^n

\* n / d for n >= 0, d > 0, to the nearest integer, ties to even.
DivR(n, d) ==
    LET q == n \div d
        r == n % d
    IN  IF 2 * r > d \/ (2 * r = d /\ q % 2 = 1) THEN q + 1 ELSE q

\* The nearest value with a significand of Precision bits.
Rnd(v) ==
    IF v = 0 THEN 0
    ELSE LET m == Abs(v)
             e == BitLength(m) - Precision
         IN  IF e <= 0 THEN v ELSE Sign(v) * DivR(m, 2^e) * 2^e

Mul(x, y) == Sign(x * y) * Rnd(DivR(Abs(x * y), One))

\* x / y for x >= 0, y > 0
Div(x, y) == Rnd(DivR(x * One, y))

\* Math.sin of a whole number of degrees between 0 and 90
SinTable(deg) ==
    CASE deg = 0  -> 0
      [] deg = 15 -> 2120
      [] deg = 30 -> 4096
      [] deg = 45 -> 5792
      [] deg = 60 -> 7088
      [] deg = 75 -> 7920
      [] deg = 90 -> 8192

\* Math.sin(deg * Math.PI / 180) for deg in -180..180
Sin(deg) ==
    LET d == Abs(deg)
    IN  Sign(deg) * (IF d > 90 THEN SinTable(180 - d) ELSE SinTable(d))

\* Math.cos(deg * Math.PI / 180) for deg in -90..90
Cos(deg) == SinTable(90 - Abs(deg))

RECURSIVE SqrtFloor(_, _, _)
\* The largest r in lo..hi with r * r <= n, by bisection.
SqrtFloor(n, lo, hi) ==
    IF lo >= hi THEN lo
    ELSE LET mid == (lo + hi + 1) \div 2
         IN  IF mid * mid <= n THEN SqrtFloor(n, mid, hi)
             ELSE SqrtFloor(n, lo, mid - 1)

\* Math.sqrt: NaN for a negative argument.
Sqrt(v) ==
    IF v = NaN THEN NaN
    ELSE IF v < 0 THEN NaN
    ELSE LET n == v * One
             r == SqrtFloor(n, 0, 2 * One)
         IN  Rnd(IF n - r * r > (r + 1) * (r + 1) - n THEN r + 1 ELSE r)

QuarterPi == 6432     \* Math.PI / 4
HalfPi    == 12864    \* Math.PI / 2
AtanBend  == 2240     \* 0.273

\* atan(t) for 0 <= t <= 1: t * pi/4 + 0.273 * t * (1 - t), within 0.004 rad
Atan01(t) == Rnd(Mul(t, QuarterPi) + Mul(AtanBend, Mul(t, Rnd(One - t))))

\* Math.atan2(y, x) for y >= 0, x >= 0: NaN if either is.
Atan2(y, x) ==
    IF y = NaN \/ x = NaN THEN NaN
    ELSE IF y = 0 THEN 0
    ELSE IF x = 0 THEN HalfPi
    ELSE IF y <= x THEN Atan01(Div(y, x))
    ELSE Rnd(HalfPi - Atan01(Div(x, y)))

R == 6371     \* Earth's radius in kilometers

MetreUnit == 8    \* a product in meters is kept in eighths

\* R * c * 1000, in units of 1 / MetreUnit
Meters(c) ==
    LET km == Rnd(R * c)
        d  == One \div MetreUnit
    IN  Rnd((km \div d) * 1000 + DivR((km % d) * 1000, d))

\* Math.round: the nearest integer, halves upward; NaN stays NaN.
Round(v) == IF v = NaN THEN NaN ELSE (v + MetreUnit \div 2) \div MetreUnit

\* A haversine term that takes both cosines from the first point.
HaversineOfFirstLatitude(point1, point2) ==
    LET sLat == Sin((point2.latitude - point1.latitude) \div 2)
        sLon == Sin((point2.longitude - point1.longitude) \div 2)
    IN  Rnd(Mul(sLat, sLat)
             + Mul(Mul(Mul(Cos(point1.latitude), Cos(point1.latitude)), sLon), sLon))

\* a = sin(dLat/2) * sin(dLat/2)
\*     + cos(lat1) * cos(lat2) * sin(dLon/2) * sin(dLon/2)
Haversine(point1, point2) ==
    LET sLat == Sin((point2.latitude - point1.latitude) \div 2)
        sLon == Sin((point2.longitude - point1.longitude) \div 2)
    IN  Rnd(Mul(sLat, sLat)
             + Mul(Mul(Mul(Cos(point1.latitude), Cos(point2.latitude)), sLon), sLon))

\* c = 2 * atan2(sqrt(a), sqrt(1 - a)); return Math.round(R * c * 1000)
calculateDistance(point1, point2) ==
    LET a    == Haversine(point1, point2)
        half == Atan2(Sqrt(a), Sqrt(Rnd(One - a)))
    IN  IF half = NaN THEN NaN ELSE Round(Meters(2 * half))

GridLatitudes  == {-75, -45, -15, 15, 45, 75}
GridLongitudes == {-120, -60, 0, 60, 120, 180}
Coordinates == [latitude : GridLatitudes, longitude : GridLongitudes]

\* A call of calculateDistance returns.
Calculate ==
    /\ distResult = NotCalled
    /\ distResult' = << calculateDistance(distPoint1, distPoint2) >>
    /\ UNCHANGED <<distPoint1, distPoint2>>
    /\ UNCHANGED outsideDist

\* The caller makes its next call with the arguments exchanged.
CallSwapped ==
    /\ distResult # NotCalled
    /\ distPoint1 # distPoint2
    /\ distPoint1' = distPoint2
    /\ distPoint2' = distPoint1
    /\ distResult' = NotCalled
    /\ UNCHANGED outsideDist

DistInit ==
    /\ ScanInit
    /\ rev = RevAlert
    /\ platform = "ios"
    /\ NavIdle
    /\ BleIdle
    /\ TrkIdle
    /\ GmIdle
    /\ NatIdle
    /\ GtIdle
    /\ distPoint1 \in Coordinates
    /\ distPoint2 \in Coordinates
    /\ distResult = NotCalled

DistNext == Calculate \/ CallSwapped

DistSpec == DistInit /\ [][DistNext]_vars

-----------------------------------------------------------------------------
(* The screens that keep trackedDevices: BallTrackingScreen,               *)
(* src/app/(tabs)/tracking.tsx 18-186 (src/unnamed/part_001 has the same   *)
(* effects), and the second CourseMapScreen, src/app/(tabs)/index.tsx      *)
(* 498-673.  An effect runs in the commit of the state change that         *)
(* triggers it, so it is part of that handler's action.                    *)

TrackingScreen == "BallTrackingScreen"
MapScreen      == "CourseMapScreen"
TrackScreens   == {TrackingScreen, MapScreen}

\* Where Location.getCurrentPositionAsync may put the user.
Positions == [latitude : {-15, 15}, longitude : {0}]

\* (Math.random() - 0.5) * 0.001, on the grid of the distance arithmetic
LatitudeOffsets  == {0, 30}
LongitudeOffsets == {60}

\* The coordinates a record can be given around a position.
Near(position) ==
    { [latitude  |-> position.latitude + dLat,
       longitude |-> position.longitude + dLon] :
         dLat \in LatitudeOffsets, dLon \in LongitudeOffsets }

\* Math.floor(Math.random() * 200) + 10 lies in 10..209
RandomDistances == {10, 209}

\* The ids the hook discovers, and the ids of the map screen's demoDevices.
TrackTable    == << "demo-golf-1", "demo-golf-2", "demo-watch-2" >>
MapDemoTable  == << "demo-1", "demo-2", "demo-3" >>

TrackedDevice(id, coordinate, distance) ==
    [id |-> id, coordinate |-> coordinate, distance |-> distance]

TrackedIds(tracked) == { tracked[i].id : i \in 1..Len(tracked) }

\* calculateDistance over the grid, evaluated once.
Distance == [a \in Coordinates, b \in Coordinates |-> calculateDistance(a, b)]

\* devices.map(device => ({...device, coordinate: location + random offset,
\* distance: calculateDistance(location, coordinate), ...})): every list the
\* effect can build.
Rebuilds(devs, position) ==
    { [ i \in 1..Len(devs) |->
          TrackedDevice(devs[i], c[i], Distance[position, c[i]]) ] :
        c \in [1..Len(devs) -> Near(position)] }

\* demoDevices.map(device => ({...device, coordinate: location + random
\* offset, distance: Math.floor(Math.random() * 200) + 10})): every list the
\* map screen's timer can build.
DemoRebuilds(position) ==
    { [ i \in 1..Len(MapDemoTable) |->
          TrackedDevice(MapDemoTable[i], c[i], d[i]) ] :
        c \in [1..Len(MapDemoTable) -> Near(position)],
        d \in [1..Len(MapDemoTable) -> RandomDistances] }

\* devices.map(device => ({...device, distance: calculateDistance(location,
\* device.coordinate)}))
Recalculated(tracked, position) ==
    [ i \in 1..Len(tracked) |->
        [tracked[i] EXCEPT !.distance = Distance[position, tracked[i].coordinate]] ]

\* devices.filter(d => d.id !== deviceId)
Without(tracked, deviceId) ==
    LET Other(d) == d.id # deviceId
    IN  SelectSeq(tracked, Other)

\* The effect on [devices, location] of the tracking screen, given the
\* values of the render it runs after: every list it can leave.
TrackedAfterConvert(devs, location, tracked) ==
    IF Len(devs) > 0 /\ location # << >>
    THEN Rebuilds(devs, location[1])
    ELSE {tracked}

\* The effect on [location]: it tests the trackedDevices of its render and
\* maps over the list current when the updater runs.
TrackedAfterRecalculate(rendered, location, tracked) ==
    IF location # << >> /\ Len(rendered) > 0
    THEN Recalculated(tracked, location[1])
    ELSE tracked

\* initializeLocation: setLocation(currentLocation), once per mount; both
\* effects of the tracking screen run after it, the one effect of the map
\* screen does.
TrkLocationFix(position) ==
    /\ trkLocation = << >>
    /\ trkLocation' = << position >>
    /\ trkOp' = "setLocation"
    /\ IF trkScreen = TrackingScreen
       THEN \E converted \in TrackedAfterConvert(trkDevices, << position >>, trkTracked) :
              trkTracked' = TrackedAfterRecalculate(trkTracked, << position >>, converted)
       ELSE trkTracked' = TrackedAfterRecalculate(trkTracked, << position >>, trkTracked)
    /\ UNCHANGED <<trkScreen, trkScanning, trkDevices, trkTimers, trkScans, trkRemoved>>
    /\ UNCHANGED outsideTrk

\* Tracking screen: startDeviceScanning -> startScan, which empties devices;
\* the effect on [devices, location] then finds no device.
TrkStartScan ==
    /\ trkScreen = TrackingScreen
    /\ ~trkScanning
    /\ trkScans < MaxScans
    /\ trkScanning' = TRUE
    /\ trkDevices' = << >>
    /\ trkScans' = trkScans + 1
    /\ trkRemoved' = {}
    /\ trkOp' = "startScan"
    /\ trkTracked' \in TrackedAfterConvert(<< >>, trkLocation, trkTracked)
    /\ UNCHANGED <<trkScreen, trkLocation, trkTimers>>
    /\ UNCHANGED outsideTrk

\* Tracking screen: the hook appends the next device of its table during
\* the scan, and the effect on [devices, location] converts the whole list
\* again.
TrkDiscover(id) ==
    /\ trkScreen = TrackingScreen
    /\ trkScanning
    /\ Len(trkDevices) < Len(TrackTable)
    /\ id = TrackTable[Len(trkDevices) + 1]
    /\ trkDevices' = Append(trkDevices, id)
    /\ trkOp' = "discover"
    /\ trkTracked' \in TrackedAfterConvert(Append(trkDevices, id), trkLocation,
                                            trkTracked)
    /\ UNCHANGED <<trkScreen, trkLocation, trkScanning, trkTimers, trkScans,
                   trkRemoved>>
    /\ UNCHANGED outsideTrk

\* Tracking screen: the scan ends (stopScan, or the hook's own timer).
TrkStopScan ==
    /\ trkScreen = TrackingScreen
    /\ trkScanning
    /\ trkScanning' = FALSE
    /\ trkOp' = "stopScan"
    /\ UNCHANGED <<trkScreen, trkLocation, trkDevices, trkTracked, trkTimers,
                   trkScans, trkRemoved>>
    /\ UNCHANGED outsideTrk

\* Map screen: startDeviceScanning; its button is disabled while isScanning.
\* The timer callback closes over the location of this render.
MapStartDeviceScanning ==
    /\ trkScreen = MapScreen
    /\ ~trkScanning
    /\ trkScans < MaxScans
    /\ trkScanning' = TRUE
    /\ trkTimers' = Append(trkTimers, trkLocation)
    /\ trkScans' = trkScans + 1
    /\ trkRemoved' = {}
    /\ trkOp' = "startScan"
    /\ UNCHANGED <<trkScreen, trkLocation, trkDevices, trkTracked>>
    /\ UNCHANGED outsideTrk

\* Map screen: the callback of setTimeout(..., 3000).
MapScanTimer ==
    /\ trkScreen = MapScreen
    /\ trkTimers # << >>
    /\ trkTimers' = Tail(trkTimers)
    /\ trkOp' = "scanTimer"
    /\ LET location == Head(trkTimers)
       IN  IF location = << >>
           THEN UNCHANGED <<trkTracked, trkScanning>>
           ELSE /\ trkTracked' \in DemoRebuilds(location[1])
                /\ trkScanning' = FALSE
    /\ UNCHANGED <<trkScreen, trkLocation, trkDevices, trkScans, trkRemoved>>
    /\ UNCHANGED outsideTrk

\* removeDevice(deviceId), confirmed with 'Stop Tracking'.
TrkRemoveDevice(deviceId) ==
    /\ deviceId \in TrackedIds(trkTracked)
    /\ trkTracked' = Without(trkTracked, deviceId)
    /\ trkRemoved' = trkRemoved \cup {deviceId}
    /\ trkOp' = "removeDevice"
    /\ UNCHANGED <<trkScreen, trkLocation, trkScanning, trkDevices, trkTimers,
                   trkScans>>
    /\ UNCHANGED outsideTrk

TrkInit ==
    /\ ScanInit
    /\ rev = RevAlert
    /\ platform = "ios"
    /\ NavIdle
    /\ BleIdle
    /\ DistIdle
    /\ GmIdle
    /\ NatIdle
    /\ GtIdle
    /\ trkScreen \in TrackScreens
    /\ trkLocation = << >>
    /\ trkScanning = FALSE
    /\ trkDevices = << >>
    /\ trkTracked = << >>
    /\ trkTimers = << >>
    /\ trkScans = 0
    /\ trkRemoved = {}
    /\ trkOp = "mount"

TrkNext ==
    \/ \E position \in Positions : TrkLocationFix(position)
    \/ TrkStartScan
    \/ \E id \in Ids(TrackTable) : TrkDiscover(id)
    \/ TrkStopScan
    \/ MapStartDeviceScanning
    \/ MapScanTimer
    \/ \E deviceId \in Ids(TrackTable) \cup Ids(MapDemoTable) : TrkRemoveDevice(deviceId)

TrkSpec == TrkInit /\ [][TrkNext]_vars

-----------------------------------------------------------------------------
(* Ball markers of the first CourseMapScreen, src/app/(tabs)/index.tsx     *)
(* 20-256, and the players and holes of the ScorecardScreen,               *)
(* src/app/(tabs)/scorecard.tsx 24-111.  A tap handler reads the state of  *)
(* the latest render, which React has made before the next tap is          *)
(* delivered; the callback of an Alert.prompt keeps the players of the     *)
(* render in which the dialog was opened.  A ball marker is kept by its    *)
(* id, title number and hole; its coordinate and distance are left out.    *)

CourseMap == "CourseMapScreen 1"
Scorecard == "ScorecardScreen"
GameScreens == {CourseMap, Scorecard}

\* What window.prompt or Alert.prompt hands back, after name.trim(): nothing
\* (null, empty or blank), or a name.
PromptNames == {"", "Ann"}

\* Date.now().toString()
NewId(time) == ToString(time)

\* A 'Next Hole' that does not stop at the last hole.
HoleAfterNextUnbounded(h) == h + 1

\* h < 18 ? h + 1 : h, and `if (currentHole < 18) setCurrentHole(currentHole + 1)`
HoleAfterNext(h) == IF h < LastHole THEN h + 1 ELSE h

\* if (currentHole > 1) setCurrentHole(currentHole - 1)
HoleAfterPrevious(h) == IF h > FirstHole THEN h - 1 ELSE h

BallMarker(id, number, hole) == [id |-> id, title |-> number, hole |-> hole]

Player(id, name) == [id |-> id, name |-> name, scores |-> NoScores]

\* if (name && name.trim()) setPlayers([...players, newPlayer])
PlayersAfterPrompt(closed, current, name, time) ==
    IF name # "" THEN Append(closed, Player(NewId(time), name)) ELSE current

\* A millisecond passes.
GameTick ==
    /\ gmNow < ClockStart + MaxTicks
    /\ gmNow' = gmNow + 1
    /\ gmOp' = "tick"
    /\ UNCHANGED <<gmScreen, gmLocated, ballMarkers, currentHole, players,
                   prompts, gmAdds>>
    /\ UNCHANGED <<coursePars, outsideGm>>

\* Map screen: setLocation(location) of the mount effect; the effect on
\* [location] finds no marker, for none can be added before.
GameLocationFix ==
    /\ gmScreen = CourseMap
    /\ ~gmLocated
    /\ gmLocated' = TRUE
    /\ gmOp' = "setLocation"
    /\ UNCHANGED <<gmScreen, gmNow, ballMarkers, currentHole, players, prompts,
                   gmAdds>>
    /\ UNCHANGED <<coursePars, outsideGm>>

\* Map screen: addBallMarker
AddBallMarker ==
    /\ gmScreen = CourseMap
    /\ gmAdds < MaxAdds
    /\ gmAdds' = gmAdds + 1
    /\ gmOp' = "addBallMarker"
    /\ ballMarkers' =
          IF ~gmLocated THEN ballMarkers
          ELSE Append(ballMarkers,
                      BallMarker(NewId(gmNow), Len(ballMarkers) + 1, currentHole))
    /\ UNCHANGED <<gmScreen, gmNow, gmLocated, currentHole, players, prompts>>
    /\ UNCHANGED <<coursePars, outsideGm>>

\* Map screen: removeBallMarker(ballId), confirmed with 'Remove'.
RemoveBallMarker(ballId) ==
    /\ gmScreen = CourseMap
    /\ \E i \in 1..Len(ballMarkers) : ballMarkers[i].id = ballId
    /\ LET Other(m) == m.id # ballId
       IN  ballMarkers' = SelectSeq(ballMarkers, Other)
    /\ gmOp' = "removeBallMarker"
    /\ UNCHANGED <<gmScreen, gmNow, gmLocated, currentHole, players, prompts,
                   gmAdds>>
    /\ UNCHANGED <<coursePars, outsideGm>>

\* Map screen: 'Next Hole'; scorecard: nextHole.
NextHole ==
    /\ currentHole' = HoleAfterNext(currentHole)
    /\ gmOp' = "nextHole"
    /\ UNCHANGED <<gmScreen, gmNow, gmLocated, ballMarkers, players, prompts,
                   gmAdds>>
    /\ UNCHANGED <<coursePars, outsideGm>>

\* Scorecard: previousHole.
PreviousHole ==
    /\ gmScreen = Scorecard
    /\ currentHole' = HoleAfterPrevious(currentHole)
    /\ gmOp' = "previousHole"
    /\ UNCHANGED <<gmScreen, gmNow, gmLocated, ballMarkers, players, prompts,
                   gmAdds>>
    /\ UNCHANGED <<coursePars, outsideGm>>

\* Scorecard: addPlayer.  On the web window.prompt returns the name before
\* the handler goes on; elsewhere Alert.prompt opens a dialog and returns.
AddPlayer(name) ==
    /\ gmScreen = Scorecard
    /\ gmAdds < MaxAdds
    /\ gmAdds' = gmAdds + 1
    /\ gmOp' = "addPlayer"
    /\ IF platform = "web"
       THEN /\ players' = PlayersAfterPrompt(players, players, name, gmNow)
            /\ UNCHANGED prompts
       ELSE /\ prompts' = Append(prompts, players)
            /\ UNCHANGED players
    /\ UNCHANGED <<gmScreen, gmNow, gmLocated, ballMarkers, currentHole>>
    /\ UNCHANGED <<coursePars, outsideGm>>

\* Scorecard: the callback of the oldest open Alert.prompt.
PromptCallback(name) ==
    /\ gmScreen = Scorecard
    /\ prompts # << >>
    /\ players' = PlayersAfterPrompt(Head(prompts), players, name, gmNow)
    /\ prompts' = Tail(prompts)
    /\ gmOp' = "promptCallback"
    /\ UNCHANGED <<gmScreen, gmNow, gmLocated, ballMarkers, currentHole, gmAdds>>
    /\ UNCHANGED <<coursePars, outsideGm>>

GmInit ==
    /\ ScanInit
    /\ rev = RevAlert
    /\ NavIdle
    /\ BleIdle
    /\ DistIdle
    /\ TrkIdle
    /\ NatIdle
    /\ GtIdle
    /\ gmScreen \in GameScreens
    /\ gmScreen = CourseMap => platform = "ios"
    /\ gmNow = ClockStart
    /\ gmLocated = FALSE
    /\ ballMarkers = << >>
    /\ currentHole = 1
    /\ players = << FirstPlayer >>
    /\ prompts = << >>
    /\ gmAdds = 0
    /\ gmOp = "mount"
    /\ coursePars = ParFour

GmNext ==
    \/ GameTick
    \/ GameLocationFix
    \/ AddBallMarker
    \/ \E t \in ClockStart..(ClockStart + MaxTicks) : RemoveBallMarker(NewId(t))
    \/ NextHole
    \/ PreviousHole
    \/ \E name \in PromptNames : AddPlayer(name)
    \/ \E name \in PromptNames : PromptCallback(name)

GmSpec == GmInit /\ [][GmNext]_vars

-----------------------------------------------------------------------------
(* Scores of the ScorecardScreen, src/app/(tabs)/scorecard.tsx 18-62 and    *)
(* 236-260                                                                 *)

\* par: [3, 4, 5][Math.floor(Math.random() * 3)] for each hole, drawn when
\* the module is loaded: the tables that repeat three pars.
ParCycles == { << 4, 4, 4 >>, << 3, 4, 5 >>, << 5, 3, 4 >> }
ParTables ==
    { [h \in FirstHole..LastHole |-> cycle[((h - 1) % 3) + 1]] : cycle \in ParCycles }

\* The players of the card: the first one, alone or with one added.
PlayerLists == { << FirstPlayer >>, << FirstPlayer, Player(NewId(ClockStart), "Ann") >> }

Max(a, b) == IF a > b THEN a ELSE b

RECURSIVE SumTo(_, _)
\* array.reduce((sum, x) => sum + x, 0) over the first n entries
SumTo(array, n) == IF n = 0 THEN 0 ELSE SumTo(array, n - 1) + array[n]

\* An updateScore without the floor at 0.
ScoreAfterUnclamped(score, change) == score + change

\* Math.max(0, score + change)
ScoreAfter(score, change) == Max(0, score + change)

\* scores.reduce((sum, score) => sum + score, 0)
calculateTotalScore(scores) == SumTo(scores, Len(scores))

\* totalScore - COURSE_HOLES.slice(0, scores.filter(s => s > 0).length)
\*                .reduce((sum, hole) => sum + hole.par, 0)
calculateParTotal(scores, pars) ==
    LET scored == Cardinality({ h \in 1..Len(scores) : scores[h] > 0 })
    IN  calculateTotalScore(scores) - SumTo(pars, scored)

\* updateScore(player.id, currentHole - 1, change) of the - and + buttons
UpdateScore(playerId, change) ==
    /\ gmScreen = Scorecard
    /\ gmAdds < MaxAdds
    /\ gmAdds' = gmAdds + 1
    /\ \E i \in 1..Len(players) : players[i].id = playerId
    /\ players' =
          [ i \in 1..Len(players) |->
              IF players[i].id = playerId
              THEN [players[i] EXCEPT !.scores[currentHole] =
                                         ScoreAfter(@, change)]
              ELSE players[i] ]
    /\ gmOp' = IF change > 0 THEN "scoreUp" ELSE "scoreDown"
    /\ UNCHANGED <<gmScreen, gmNow, gmLocated, ballMarkers, currentHole, prompts,
                   coursePars>>
    /\ UNCHANGED outsideGm

ScoreInit ==
    /\ ScanInit
    /\ rev = RevAlert
    /\ platform = "ios"
    /\ NavIdle
    /\ BleIdle
    /\ DistIdle
    /\ TrkIdle
    /\ NatIdle
    /\ GtIdle
    /\ gmScreen = Scorecard
    /\ gmNow = ClockStart
    /\ gmLocated = FALSE
    /\ ballMarkers = << >>
    /\ currentHole = 1
    /\ players \in PlayerLists
    /\ prompts = << >>
    /\ gmAdds = 0
    /\ gmOp = "mount"
    /\ coursePars \in ParTables

ScoreNext ==
    \/ \E playerId \in {"1", NewId(ClockStart)}, change \in {-1, 1} :
          UpdateScore(playerId, change)
    \/ NextHole
    \/ PreviousHole

ScoreSpec == ScoreInit /\ [][ScoreNext]_vars

-----------------------------------------------------------------------------
(* Native scans: useNativeBluetooth.startScan, src/hooks/useNativeBluetooth.ts *)
(* 139-199; the real-BLE useBluetooth, src/hooks/useBluetooth.ts 253-355;   *)
(* and the native branch of the useBluetooth with a demo fallback,          *)
(* src/unnamed/part_004 144-253 (part_005 294-414 and part_003 299-377 set  *)
(* the same timer).  The hook is taken after a successful initialisation:   *)
(* the BLE manager is loaded and the adapter reported enabled.  One         *)
(* startScan is in flight at a time.  The devices list of these hooks is    *)
(* the subject of the discovery listeners above and is left out here.       *)

FallbackHook == "useBluetooth with demo fallback"
NativeHooks  == {NativeHook, ListenerHook, FallbackHook}

\* What BleManager.checkState() gives: a state, or a rejection.
AdapterStates == {"on", "off", "reject"}

\* A catch block that reports nothing.
NoFailureMessage(hook, cause) == NoError

\* setScanError(`Scan failed: ${error.message}`) of useNativeBluetooth,
\* setScanError('Failed to start Bluetooth scan') of the real-BLE hook.
FailureMessage(hook, cause) ==
    IF hook = NativeHook
    THEN IF cause = "off" THEN "Scan failed: Bluetooth is not enabled"
         ELSE "Scan failed: rejected"
    ELSE "Failed to start Bluetooth scan"

\* setTimeout(() => { stopScan(); }, 10000) with stopScan's
\* `if (!isScanning) return;`, and setTimeout(() => { if (isScanning)
\* stopScan(); }, 15000): both read the isScanning of the render whose
\* startScan created the timer.
TimerStopsScan(seen, scanning) == seen

\* startScan() up to its first await on the BLE manager.  The real-BLE and
\* fallback hooks first await requestPermissions().
NatStartScan(granted) ==
    /\ natPc = "idle"
    /\ natCalls < MaxScans
    /\ natCalls' = natCalls + 1
    /\ natOp' = "startScan"
    /\ IF natScanning
       THEN UNCHANGED <<natScanning, natError, natPc, natDemoStops>>
       ELSE CASE natHook = NativeHook ->
                   /\ natError' = NoError
                   /\ natScanning' = TRUE
                   /\ natPc' = "checkState"
                   /\ UNCHANGED natDemoStops
              [] natHook = ListenerHook ->
                   /\ natError' = NoError
                   /\ natScanning' = granted
                   /\ natPc' = IF granted THEN "scan" ELSE "idle"
                   /\ UNCHANGED natDemoStops
              [] OTHER ->
                   /\ natScanning' = granted
                   /\ natPc' = IF granted /\ ~natDemoMode THEN "scan" ELSE "idle"
                   /\ natDemoStops' = IF granted /\ natDemoMode
                                      THEN natDemoStops + 1 ELSE natDemoStops
                   /\ UNCHANGED natError
    /\ UNCHANGED <<natHook, natDemoMode, natTimers, natRadio, natListening>>
    /\ UNCHANGED outsideNat

\* useNativeBluetooth: `const state = await BleManager.checkState()` and the
\* throw that follows a state other than 'on'.
NatCheckState(state) ==
    /\ natPc = "checkState"
    /\ IF state = "on"
       THEN /\ natPc' = "scan"
            /\ natOp' = "checkState"
            /\ UNCHANGED <<natScanning, natError>>
       ELSE /\ natPc' = "idle"
            /\ natOp' = "scanFailed"
            /\ natError' = FailureMessage(natHook, state)
            /\ natScanning' = FALSE
    /\ UNCHANGED <<natHook, natDemoMode, natTimers, natRadio, natListening,
                   natDemoStops, natCalls>>
    /\ UNCHANGED outsideNat

\* `await BleManager.scan([], 10, true)` returns: the rest of the try block.
\* The isScanning of the render that ran startScan was false.
NatScanResolved ==
    /\ natPc = "scan"
    /\ natPc' = "idle"
    /\ natOp' = "scanStarted"
    /\ natRadio' = TRUE
    /\ natListening' = (natListening \/ natHook = ListenerHook)
    /\ natTimers' = IF natHook = NativeHook THEN natTimers
                    ELSE Append(natTimers, FALSE)
    /\ UNCHANGED <<natHook, natDemoMode, natScanning, natError, natDemoStops,
                   natCalls>>
    /\ UNCHANGED outsideNat

\* `await BleManager.scan([], 10, true)` rejects: the catch block.
NatScanRejected ==
    /\ natPc = "scan"
    /\ natPc' = "idle"
    /\ natOp' = "scanFailed"
    /\ IF natHook = FallbackHook
       THEN /\ natDemoMode' = TRUE
            /\ natDemoStops' = natDemoStops + 1
            /\ UNCHANGED <<natScanning, natError>>
       ELSE /\ natError' = FailureMessage(natHook, "reject")
            /\ natScanning' = FALSE
            /\ UNCHANGED <<natDemoMode, natDemoStops>>
    /\ UNCHANGED <<natHook, natTimers, natRadio, natListening, natCalls>>
    /\ UNCHANGED outsideNat

\* The callback of the timer startScan set.
NatTimer ==
    /\ natTimers # << >>
    /\ natTimers' = Tail(natTimers)
    /\ natOp' = "timer"
    /\ IF TimerStopsScan(Head(natTimers), natScanning)
       THEN /\ natScanning' = FALSE
            /\ natRadio' = FALSE
       ELSE UNCHANGED <<natScanning, natRadio>>
    /\ UNCHANGED <<natHook, natDemoMode, natError, natPc, natListening,
                   natDemoStops, natCalls>>
    /\ UNCHANGED outsideNat

\* stopScan() called by the screen, from the latest render.
NatStopScan(resolved) ==
    /\ natPc = "idle"
    /\ natOp' = "stopScan"
    /\ IF natHook = NativeHook
       THEN /\ natScanning' = (natScanning /\ ~resolved)
            /\ natRadio' = (natRadio /\ ~resolved)
       ELSE IF natScanning
       THEN /\ natScanning' = FALSE
            /\ natRadio' = (natRadio /\ ~resolved)
       ELSE UNCHANGED <<natScanning, natRadio>>
    /\ UNCHANGED <<natHook, natDemoMode, natError, natPc, natTimers,
                   natListening, natDemoStops, natCalls>>
    /\ UNCHANGED outsideNat

\* The manager's own scan time is over: BleManagerStopScan.  The listener of
\* useNativeBluetooth stays; the one of the real-BLE hook removes itself;
\* the fallback hook has none.
NatStopEvent ==
    /\ natRadio
    /\ natRadio' = FALSE
    /\ natOp' = "stopEvent"
    /\ natScanning' = IF natHook = NativeHook \/ natListening THEN FALSE
                      ELSE natScanning
    /\ natListening' = FALSE
    /\ UNCHANGED <<natHook, natDemoMode, natError, natPc, natTimers,
                   natDemoStops, natCalls>>
    /\ UNCHANGED outsideNat

\* Demo fallback: the trailing setTimeout(() => setIsScanning(false), 7000).
NatDemoAutoStop ==
    /\ natDemoStops > 0
    /\ natDemoStops' = natDemoStops - 1
    /\ natScanning' = FALSE
    /\ natOp' = "demoAutoStop"
    /\ UNCHANGED <<natHook, natDemoMode, natError, natPc, natTimers, natRadio,
                   natListening, natCalls>>
    /\ UNCHANGED outsideNat

NatInit ==
    /\ ScanInit
    /\ rev = RevAlert
    /\ platform = "android"
    /\ NavIdle
    /\ BleIdle
    /\ DistIdle
    /\ TrkIdle
    /\ GmIdle
    /\ GtIdle
    /\ natHook \in NativeHooks
    /\ natDemoMode = FALSE
    /\ natScanning = FALSE
    /\ natError = NoError
    /\ natPc = "idle"
    /\ natTimers = << >>
    /\ natRadio = FALSE
    /\ natListening = FALSE
    /\ natDemoStops = 0
    /\ natCalls = 0
    /\ natOp = "mount"

NatNext ==
    \/ \E granted \in BOOLEAN : NatStartScan(granted)
    \/ \E state \in AdapterStates : NatCheckState(state)
    \/ NatScanResolved
    \/ NatScanRejected
    \/ NatTimer
    \/ \E resolved \in BOOLEAN : NatStopScan(resolved)
    \/ NatStopEvent
    \/ NatDemoAutoStop

NatSpec == NatInit /\ [][NatNext]_vars

-----------------------------------------------------------------------------
(* GameTimer, src/unnamed/part_002 438-473.  React runs the cleanup of the  *)
(* previous effect before it runs the effect again for changed              *)
(* dependencies, and runs the last cleanup at unmount.                      *)

Second == 1000

\* n.toString().padStart(2, '0')
PadStart(n) == IF n < 10 THEN "0" \o ToString(n) ELSE ToString(n)

\* updateTimer: the text for the milliseconds since startTime
ElapsedText(diff) ==
    LET hours   == diff \div (1000 * 60 * 60)
        minutes == (diff % (1000 * 60 * 60)) \div (1000 * 60)
        seconds == (diff % (1000 * 60)) \div 1000
    IN  IF hours > 0
        THEN ToString(hours) \o ":" \o PadStart(minutes) \o ":" \o PadStart(seconds)
        ELSE ToString(minutes) \o ":" \o PadStart(seconds)

\* The startTime prop: null, or the Date of a moment of the run.
StartTimes == {<< >>} \cup { << s * Second >> : s \in 0..MaxSeconds }

TimerInterval(id, startTime) == [id |-> id, startTime |-> startTime]

\* An effect that returns no cleanup.
NoCleanup(intervals, own) == intervals

\* return () => clearInterval(interval)
Cleanup(intervals, own) == { i \in intervals : i.id # own }

\* The effect on [startTime, isActive], after the previous cleanup: what it
\* leaves in elapsedTime, the live intervals and the cleanup's interval.
EffectRuns(startTime, isActive, intervals) ==
    /\ IF startTime = << >> \/ ~isActive
       THEN /\ gtElapsed' = "0:00"
            /\ gtIntervals' = intervals
            /\ gtOwn' = 0
            /\ UNCHANGED gtCreated
       ELSE /\ gtElapsed' = ElapsedText(gtNow - startTime[1])
            /\ gtIntervals' = intervals \cup {TimerInterval(gtCreated + 1, startTime[1])}
            /\ gtOwn' = gtCreated + 1
            /\ gtCreated' = gtCreated + 1

\* The parent renders the timer with a startTime or an isActive that differs.
GtPropsChange(startTime, isActive) ==
    /\ gtMounted
    /\ gtCreated < MaxIntervals
    /\ startTime \in {<< >>, << gtNow >>, gtStartTime}
    /\ <<startTime, isActive>> # <<gtStartTime, gtActive>>
    /\ gtStartTime' = startTime
    /\ gtActive' = isActive
    /\ EffectRuns(startTime, isActive, Cleanup(gtIntervals, gtOwn))
    /\ gtOp' = [op |-> "propsChange", id |-> 0]
    /\ UNCHANGED <<gtMounted, gtNow>>
    /\ UNCHANGED outsideGt

\* A setInterval callback runs updateTimer with the startTime it closed over.
GtIntervalFires(interval) ==
    /\ interval \in gtIntervals
    /\ gtElapsed' = ElapsedText(gtNow - interval.startTime)
    /\ gtOp' = [op |-> "interval", id |-> interval.id]
    /\ UNCHANGED <<gtMounted, gtStartTime, gtActive, gtIntervals, gtOwn,
                   gtCreated, gtNow>>
    /\ UNCHANGED outsideGt

\* A second passes.
GtSecond ==
    /\ gtNow < MaxSeconds * Second
    /\ gtNow' = gtNow + Second
    /\ gtOp' = [op |-> "second", id |-> 0]
    /\ UNCHANGED <<gtMounted, gtStartTime, gtActive, gtElapsed, gtIntervals,
                   gtOwn, gtCreated>>
    /\ UNCHANGED outsideGt

\* The timer is unmounted: the last cleanup runs.
GtUnmount ==
    /\ gtMounted
    /\ gtMounted' = FALSE
    /\ gtIntervals' = Cleanup(gtIntervals, gtOwn)
    /\ gtOwn' = 0
    /\ gtOp' = [op |-> "unmount", id |-> 0]
    /\ UNCHANGED <<gtStartTime, gtActive, gtElapsed, gtCreated, gtNow>>
    /\ UNCHANGED outsideGt

\* The timer is mounted at time 0, idle or running; its effect has run.
GtInit ==
    /\ ScanInit
    /\ rev = RevAlert
    /\ platform = "ios"
    /\ NavIdle
    /\ BleIdle
    /\ DistIdle
    /\ TrkIdle
    /\ GmIdle
    /\ NatIdle
    /\ gtMounted = TRUE
    /\ gtNow = 0
    /\ gtOp = [op |-> "mount", id |-> 0]
    /\ \/ /\ gtStartTime = << >>
          /\ gtActive \in BOOLEAN
          /\ gtElapsed = "0:00"
          /\ gtIntervals = {}
          /\ gtOwn = 0
          /\ gtCreated = 0
       \/ /\ gtStartTime = << 0 >>
          /\ gtActive = TRUE
          /\ gtElapsed = ElapsedText(0)
          /\ gtIntervals = {TimerInterval(1, 0)}
          /\ gtOwn = 1
          /\ gtCreated = 1

GtNext ==
    \/ \E startTime \in StartTimes, isActive \in BOOLEAN :
          GtPropsChange(startTime, isActive)
    \/ \E id \in 1..MaxIntervals, startTime \in StartTimes \ {<< >>} :
          GtIntervalFires(TimerInterval(id, startTime[1]))
    \/ GtSecond
    \/ GtUnmount

GtSpec == GtInit /\ [][GtNext]_vars

-----------------------------------------------------------------------------
(* Properties of the scan lifecycle *)

ScanOps == {"startScan", "resumeGranted"}

CannedCount == Len(CannedTable(rev))

\* C1: startScan() invoked while the hook is Scanning is a no-op: the device
\* list is neither reset nor extended, no discovery or auto-stop timer is
\* scheduled, and no further scan is begun or left suspended.
StartScanWhileScanningIsNoOp ==
    [][ (isScanning /\ lastOp'.op = "startScan")
          => /\ devices' = devices
             /\ timers' = timers
             /\ isScanning' = isScanning
             /\ scanCount' = scanCount
             /\ pending' = pending ]_vars

\* C1 witness: startScan() has just returned early in the middle of a scan
\* that had already discovered records and still has callbacks pending.
StartScanWhileScanningSeen ==
    /\ lastOp.op = "startScan"
    /\ lastOp.was
    /\ lastOp.had > 0
    /\ devices # << >>
    /\ timers # {}

\* C2: once stopScan() has been called in the middle of a scan, no discovery
\* callback of that scan changes the device list any more.
NoDiscoveryAfterStop ==
    [][ (lastOp'.op = Discover /\ lastOp'.scan \in stopped)
          => devices' = devices ]_vars

\* C5: no two records of the devices list share an id.
UniqueDeviceIds == Cardinality(Ids(devices)) = Len(devices)

\* C6: after one scan has been started and never stopped, once N * interval
\* has elapsed and the callbacks due by then have run, the devices list holds
\* each of the N canned ids exactly once and nothing else.
SingleScanDiscoversAll ==
    ( /\ scanCount = 1
      /\ stopped = {}
      /\ now - scanStartedAt >= CannedCount * Interval(rev)
      /\ ~TimerDue )
    => /\ Len(devices) = CannedCount
       /\ Ids(devices) = Ids(CannedTable(rev))

\* C6 witness: a single unstopped scan at N * interval with the full table.
SingleScanCompleteSeen ==
    /\ scanCount = 1
    /\ stopped = {}
    /\ now - scanStartedAt >= CannedCount * Interval(rev)
    /\ ~TimerDue
    /\ Len(devices) = CannedCount
    /\ lastOp.op = Discover

\* C7: whenever the hook is Scanning it is eventually Idle again, whether or
\* not the caller ever acts: the auto-stop callback sets isScanning to false.
ScanningLeadsToIdle == isScanning ~> ~isScanning

\* C7 witness: the auto-stop callback of a scan nobody stopped has just taken
\* the hook from Scanning to Idle.
AutoStopSeen ==
    /\ lastOp.op = AutoStop
    /\ lastOp.was
    /\ ~isScanning
    /\ stopped = {}

\* C8: the step that begins a scan leaves isScanning true and devices empty,
\* whatever the list held before.
BeginScanClearsDevices ==
    [][ (lastOp'.op \in ScanOps /\ scanCount' = scanCount + 1)
          => (isScanning' /\ devices' = << >>) ]_vars

\* C8 witness: a scan has just begun over a list that held records.
BeginOverNonEmptyListSeen ==
    /\ lastOp.op \in ScanOps
    /\ lastOp.had > 0
    /\ ~lastOp.was
    /\ isScanning
    /\ devices = << >>

\* C9: stopScan() invoked while the hook is Idle is a no-op: isScanning stays
\* false and devices, scanError and isBluetoothEnabled are unchanged.
StopScanWhileIdleIsNoOp ==
    [][ (~isScanning /\ lastOp'.op = "stopScan")
          => /\ isScanning' = FALSE
             /\ devices' = devices
             /\ scanError' = scanError
             /\ isBluetoothEnabled' = isBluetoothEnabled ]_vars

\* C9 witness: stopScan() has just run on an Idle hook whose list holds the
\* records of a finished scan.
StopScanWhileIdleSeen ==
    /\ lastOp.op = "stopScan"
    /\ ~lastOp.was
    /\ ~isScanning
    /\ devices # << >>

\* C10: in the revision whose mount effect has a cleanup, after the owning
\* screen is torn down no pending scan timer (discovery or auto-stop)
\* changes the hook's state.
NoTimerEffectAfterTeardown ==
    [][ (rev = RevCleanup /\ ~mounted /\ lastOp'.op \in {Discover, AutoStop})
          => (devices' = devices /\ isScanning' = isScanning) ]_vars

-----------------------------------------------------------------------------
(* Properties of the navigation dispatcher *)

IsProbe(c)  == c.fn = "canOpenURL"
IsOpen(c)   == c.fn # "canOpenURL"
IsNative(c) == c.url.target # WebFallback

Probes     == SelectSeq(navLog, IsProbe)
Opens      == SelectSeq(navLog, IsOpen)
NativeOpenedOk == \E j \in 1..Len(navLog) :
                     IsOpen(navLog[j]) /\ IsNative(navLog[j]) /\ navLog[j].result = "ok"
WebOpens   == { j \in 1..Len(navLog) : IsOpen(navLog[j]) /\ ~IsNative(navLog[j]) }

ProbesInOrder ==
    /\ Len(Probes) <= Len(Candidates(platform))
    /\ \A i \in 1..Len(Probes) :
          Probes[i].url = Url(Candidates(platform)[i], navDest)

NavWebFailureIsTerminal ==
    \A j \in 1..Len(navLog) :
        (~IsNative(navLog[j]) /\ navLog[j].result = "throw")
            => /\ j = Len(navLog)
               /\ navPc = "done"
               /\ ~ENABLED NavNext
               /\ Len(navNotices) = 1
               /\ navNotices[1].kind = "error"
               /\ navNotices[1].latitude = navDest.latitude
               /\ navNotices[1].longitude = navDest.longitude
               /\ ~navTimer
               /\ navPromise = "resolved"

\* C4 witness: both native candidates failed and the web fallback threw.
NavWebFailureSeen ==
    /\ navPc = "done"
    /\ Len(Probes) = 2
    /\ navLog # << >>
    /\ ~IsNative(navLog[Len(navLog)])
    /\ navLog[Len(navLog)].result = "throw"
    /\ navNotices # << >>


-----------------------------------------------------------------------------
(* The refused permission request *)

PermissionRevisions == {RevDemo, RevCleanup}

\* C18: when the permission request of a startScan is denied, the call shows
\* the 'Permissions Required' notice and returns: isScanning, the devices
\* list and the set of scheduled callbacks are what they were, and no scan is
\* counted as begun.
PermissionDeniedLeavesScanUntouched ==
    [][ (rev \in PermissionRevisions /\ lastOp'.op = "resumeDenied")
          => /\ lastAlert' = "Permissions Required"
             /\ isScanning' = isScanning
             /\ devices' = devices
             /\ timers' = timers
             /\ scanCount' = scanCount ]_vars

\* A request is denied while the hook is idle and shows the list of an
\* earlier scan.
PermissionDeniedSeen ==
    /\ rev \in PermissionRevisions
    /\ lastOp.op = "resumeDenied"
    /\ lastAlert = "Permissions Required"
    /\ ~isScanning
    /\ devices # << >>
    /\ timers = {}


-----------------------------------------------------------------------------
(* The candidates of each platform *)

AppleMaps       == "maps://"
GoogleMapsApp   == "comgooglemaps://"
GoogleNavIntent == "google.navigation:"
GeoIntent       == "geo:"

\* Native candidate t was tried and did not open: it was probed, and no
\* openURL of it returned.
CandidateFailed(t) ==
    /\ \E j \in 1..Len(navLog) : IsProbe(navLog[j]) /\ navLog[j].url.target = t
    /\ ~\E j \in 1..Len(navLog) :
          IsOpen(navLog[j]) /\ navLog[j].url.target = t /\ navLog[j].result = "ok"

ProbeTargets == [ j \in 1..Len(Probes) |-> Probes[j].url.target ]

IsPrefix(a, b) == Len(a) <= Len(b) /\ \A j \in 1..Len(a) : a[j] = b[j]

\* C12: the probes of a call are, on ios, Apple Maps then Google Maps; on
\* android, the Google navigation intent then the geo intent; elsewhere none
\* is made and the web URL is the only target. On ios and android the web
\* URL is opened if and only if both native candidates failed.
NavCandidatesFixedPerPlatform ==
    /\ platform = "ios" =>
          /\ IsPrefix(ProbeTargets, << AppleMaps, GoogleMapsApp >>)
          /\ \A j \in 1..Len(navLog) :
                navLog[j].url.target \in {AppleMaps, GoogleMapsApp, WebFallback}
          /\ WebOpens # {} => CandidateFailed(AppleMaps) /\ CandidateFailed(GoogleMapsApp)
          /\ (navPc = "done" /\ CandidateFailed(AppleMaps)
                 /\ CandidateFailed(GoogleMapsApp)) => WebOpens # {}
    /\ platform = "android" =>
          /\ IsPrefix(ProbeTargets, << GoogleNavIntent, GeoIntent >>)
          /\ \A j \in 1..Len(navLog) :
                navLog[j].url.target \in {GoogleNavIntent, GeoIntent, WebFallback}
          /\ WebOpens # {} => CandidateFailed(GoogleNavIntent) /\ CandidateFailed(GeoIntent)
          /\ (navPc = "done" /\ CandidateFailed(GoogleNavIntent)
                 /\ CandidateFailed(GeoIntent)) => WebOpens # {}
    /\ platform \notin {"ios", "android"} =>
          /\ Probes = << >>
          /\ \A j \in 1..Len(navLog) :
                navLog[j].fn = "window.open" /\ navLog[j].url.target = WebFallback
          /\ navPc = "done" => Len(navLog) = 1

\* On ios both apps were probed in order, neither opened, and the web URL
\* was opened.
NavBothNativeFailedSeen ==
    /\ platform = "ios"
    /\ navPc = "done"
    /\ ProbeTargets = << AppleMaps, GoogleMapsApp >>
    /\ CandidateFailed(AppleMaps) /\ CandidateFailed(GoogleMapsApp)
    /\ WebOpens # {}
    /\ navSuccess


-----------------------------------------------------------------------------
(* Discovery events against the list *)

BleIds(ds) == { ds[i].id : i \in 1..Len(ds) }

\* The step is a discovery event for an id the list already holds, and it
\* replaces that record where it stands and touches nothing else.
UpdatedInPlace ==
    /\ Len(bleDevices') = Len(bleDevices)
    /\ \E i \in 1..Len(bleDevices) :
          /\ bleDevices[i].id = bleEvent'.id
          /\ bleDevices'[i] = NewDevice(bleEvent')
          /\ \A j \in 1..Len(bleDevices) : j # i => bleDevices'[j] = bleDevices[j]

\* The step appends exactly one record, the event's, at the end.
AppendedAtEnd ==
    bleDevices' = Append(bleDevices, NewDevice(bleEvent'))

\* C11 as stated: every discovery event for a known id updates that record
\* in place (same length, same index, the others unchanged), and every
\* discovery event for a new id appends exactly one record at the end.
DiscoveryUpdatesOrAppends ==
    [][ bleEvent' # NoEvent =>
          IF bleEvent'.id \in BleIds(bleDevices) THEN UpdatedInPlace
          ELSE AppendedAtEnd ]_vars

\* C11 amended: that holds of every event the listener accepts -- all of them
\* in useNativeBluetooth and in the mock callback, those that carry a name
\* in the useBluetooth listener -- and an event the listener does not accept
\* leaves the list as it is.
AcceptedDiscoveryUpdatesOrAppends ==
    [][ bleEvent' # NoEvent =>
          IF ~ListenerAccepts(bleHook, bleEvent') THEN bleDevices' = bleDevices
          ELSE IF bleEvent'.id \in BleIds(bleDevices) THEN UpdatedInPlace
          ELSE AppendedAtEnd ]_vars

\* The last event was for a record that is not the last of the list, and
\* the record now carries the event's values: it was updated in place.
UpdatedInPlaceSeen ==
    /\ bleHook \in {NativeHook, ListenerHook}
    /\ bleEvent # NoEvent
    /\ Len(bleDevices) = 3
    /\ bleDevices[1] = NewDevice(bleEvent)
    /\ bleDevices[1].rssi = -100
    /\ bleDevices[2].rssi # -100


-----------------------------------------------------------------------------
(* calculateDistance *)

\* C19: calculateDistance(a, a) is 0 for every coordinate a, and the result
\* for every pair is a non-negative integer number of meters.
DistanceIsZeroAtSelfAndNatural ==
    distResult # NotCalled =>
        /\ distResult[1] # NaN
        /\ distResult[1] \in Nat
        /\ distPoint1 = distPoint2 => distResult[1] = 0

-----------------------------------------------------------------------------
(* trackedDevices *)

\* C13: whenever the current position is known, the distance of every
\* tracked device is calculateDistance(current position, its coordinate).
DistanceIsDerived ==
    trkLocation # << >> =>
        \A i \in 1..Len(trkTracked) :
            trkTracked[i].distance =
                calculateDistance(trkLocation[1], trkTracked[i].coordinate)

\* C14: no step changes the coordinate of a record that is in
\* trackedDevices before and after it.
CoordinateIsFixed ==
    [][ \A i \in 1..Len(trkTracked) : \A j \in 1..Len(trkTracked') :
            trkTracked[i].id = trkTracked'[j].id
                => trkTracked[i].coordinate = trkTracked'[j].coordinate ]_vars

\* C15: on the tracking screen, a device whose removal was confirmed since
\* the last scan start is not in trackedDevices.
RemovedStaysRemoved ==
    trkScreen = TrackingScreen => trkRemoved \cap TrackedIds(trkTracked) = {}


-----------------------------------------------------------------------------
(* Ball markers, players and holes *)

\* C16: no two ball markers share an id, and no two players do.
UniqueMarkerAndPlayerIds ==
    /\ \A i, j \in 1..Len(ballMarkers) :
          ballMarkers[i].id = ballMarkers[j].id => i = j
    /\ \A i, j \in 1..Len(players) :
          players[i].id = players[j].id => i = j

\* C17: the current hole is an integer from 1 to 18, and so is the hole of
\* every ball marker.
HoleInRange ==
    /\ currentHole \in FirstHole..LastHole
    /\ \A i \in 1..Len(ballMarkers) : ballMarkers[i].hole \in FirstHole..LastHole

\* 'Next Hole' was tapped at the last hole, where a ball is marked.
NextHoleAtLastHoleSeen ==
    /\ gmScreen = CourseMap
    /\ gmOp = "nextHole"
    /\ currentHole = LastHole
    /\ \E i \in 1..Len(ballMarkers) : ballMarkers[i].hole = LastHole


-----------------------------------------------------------------------------
(* Interleaved startScan calls, and the order of a scan's records *)

\* C21: only one scan runs even when startScan is invoked again before the
\* first invocation has made the hook Scanning: a scan begins, clearing the
\* list and scheduling its batch of callbacks, only while the hook is not
\* Scanning and no discovery callback of an unstopped scan is pending.
NoScanBeginsWhileScanning ==
    [][ scanCount' = scanCount + 1
          => /\ ~isScanning
             /\ \A t \in timers : t.kind = Discover => t.scan \in stopped ]_vars

UninterruptedScan == scanCount = 1 /\ stopped = {}

\* C26: during a single uninterrupted mock scan the devices list is at every
\* moment a prefix of the canned table, and the auto-stop callback runs only
\* after the last record has been appended.
RecordsAppearInTableOrder ==
    [][ UninterruptedScan'
          => /\ IsPrefix(devices', CannedTable(rev))
             /\ lastOp'.op = AutoStop => Len(devices) = CannedCount ]_vars

\* The auto-stop of a single uninterrupted scan runs over the whole table.
AutoStopAfterLastRecordSeen ==
    /\ UninterruptedScan
    /\ lastOp.op = AutoStop
    /\ lastOp.had = CannedCount
    /\ devices = CannedTable(rev)


-----------------------------------------------------------------------------
(* The outcome notice of a navigation call *)

SomeOpenCompleted ==
    \E j \in 1..Len(navLog) : IsOpen(navLog[j]) /\ navLog[j].result = "ok"

NoticesOfKind(kind) == { j \in 1..Len(navNotices) : navNotices[j].kind = kind }

\* The success alerts of the call: shown, or scheduled and yet to be shown.
SuccessOutcomes ==
    Cardinality(NoticesOfKind("success")) + (IF navTimer THEN 1 ELSE 0)

ErrorOutcomes == Cardinality(NoticesOfKind("error"))

\* C25: a call of openTurnByTurnNavigation produces exactly one outcome
\* notice: the success alert is scheduled if and only if some open call
\* completed without throwing, the error alert is shown if and only if none
\* did; before the call is over there is no notice.
NavExactlyOneOutcome ==
    IF navPc = "done"
    THEN /\ SuccessOutcomes = (IF SomeOpenCompleted THEN 1 ELSE 0)
         /\ ErrorOutcomes = (IF SomeOpenCompleted THEN 0 ELSE 1)
         /\ SuccessOutcomes + ErrorOutcomes = 1
    ELSE SuccessOutcomes + ErrorOutcomes = 0

\* The success alert of a call that opened the web fallback has been shown.
NavSuccessShownSeen ==
    /\ navPc = "done"
    /\ ~navTimer
    /\ navNotices = << SuccessNotice(AppName(WebFallback)) >>
    /\ Len(Probes) = 2


-----------------------------------------------------------------------------
(* The scan flag of the map screen, and the tracked ids of the tracking    *)
(* screen                                                                  *)

\* C23: on the map screen isScanning is false once the 3-second callback of
\* startDeviceScanning has run, with or without a location fix.
MapScanResetsAfterTimer ==
    [][ (trkScreen = MapScreen /\ trkOp' = "scanTimer") => ~trkScanning' ]_vars

\* C27: on the tracking screen, once the effects have run, every id in
\* trackedDevices is an id of the hook's current devices list.
TrackedAreDiscovered ==
    trkScreen = TrackingScreen => TrackedIds(trkTracked) \subseteq Ids(trkDevices)


-----------------------------------------------------------------------------
(* Native scans *)

\* C22: when the timer set by the startScan of a native scan fires while the
\* hook is still Scanning, its stopScan call takes effect: isScanning is
\* false afterwards.
NativeTimerStopsScan ==
    [][ (natOp' = "timer" /\ natScanning) => ~natScanning' ]_vars

\* C24: in useNativeBluetooth a startScan that fails (the adapter state is
\* not 'on', or the state check or the scan call rejects) ends with
\* isScanning false and scanError set to a message.
NativeFailureLeavesIdle ==
    (natHook = NativeHook /\ natOp = "scanFailed")
        => (~natScanning /\ natError # NoError /\ natPc = "idle")

\* The scan call of useNativeBluetooth has just rejected, on an adapter that
\* was on, in a call that followed a scan that had started.
NativeScanRejectedSeen ==
    /\ natHook = NativeHook
    /\ natOp = "scanFailed"
    /\ natError = FailureMessage(NativeHook, "reject")
    /\ natCalls = 2


-----------------------------------------------------------------------------
(* Scores *)

AllScores == { players[i].scores[h] : i \in 1..Len(players), h \in FirstHole..LastHole }

\* C28: every score is an integer >= 0, and updateScore with change -1
\* leaves a score of 0 at 0.
ScoresNeverNegative ==
    /\ [](AllScores \subseteq Nat)
    /\ [][ gmOp' = "scoreDown"
            => \A i \in 1..Len(players) :
                  players[i].scores[currentHole] = 0
                     => players'[i].scores[currentHole] = 0 ]_vars

\* The only tap so far was the - button, on a hole nobody has scored.
ScoreDownAtZeroSeen ==
    /\ gmOp = "scoreDown"
    /\ gmAdds = 1
    /\ AllScores = {0}

\* The sum, over the holes scored, of score minus that hole's par.
ToParOfScoredHoles(scores, pars) ==
    LET diff == [h \in 1..Len(scores) |->
                   IF scores[h] > 0 THEN scores[h] - pars[h] ELSE 0]
    IN  SumTo(diff, Len(scores))

\* C29: the to-par figure of every player equals the sum, over exactly the
\* holes that player has scored, of score minus the hole's par.
ToParCountsScoredHoles ==
    \A i \in 1..Len(players) :
        calculateParTotal(players[i].scores, coursePars)
            = ToParOfScoredHoles(players[i].scores, coursePars)


-----------------------------------------------------------------------------
(* GameTimer *)

\* C30: at most one interval is live per mounted GameTimer; it is the one
\* the latest effect created; none is live after unmount; and an
\* elapsedTime update is made only by that interval, with the current
\* startTime, while the timer is mounted and active.
GameTimerNeverLeaks ==
    /\ [](/\ Cardinality(gtIntervals) <= 1
          /\ \A i \in gtIntervals : i.id = gtOwn
          /\ ~gtMounted => gtIntervals = {})
    /\ [][ gtOp'.op = "interval"
            => /\ gtMounted /\ gtActive
               /\ gtOp'.id = gtOwn
               /\ gtStartTime # << >>
               /\ gtElapsed' = ElapsedText(gtNow - gtStartTime[1]) ]_vars

\* The interval of a restarted timer has just updated the text, one second
\* after a change of startTime cleared an earlier interval.
RestartedTimerTickSeen ==
    /\ gtOp.op = "interval"
    /\ gtOp.id = 2
    /\ gtIntervals = {TimerInterval(2, Second)}
    /\ gtElapsed = "0:01"

=============================================================================
